---- MODULE Spec2Model ----
(***************************************************************************)
(* A model of train.py: the command line (parse_range, main), the          *)
(* synthetic reversal data (Sequence, random_sequence), the batched        *)
(* training loop (train) and the greedy evaluation loop (test).            *)
(*                                                                         *)
(* The stack LSTM itself (module stack_lstm) and util are not part of      *)
(* train.py.  A State is modelled by the history of the steps that         *)
(* produced it, which is what its hidden state, cell state and stack are   *)
(* functions of; the value of state.output() is left open, so an argmax    *)
(* over it is any output index.  Floats are modelled by exact rationals    *)
(* (pairs <<numerator, denominator>> in lowest terms), and run under       *)
(* Python 3 division.                                                      *)
(***************************************************************************)
EXTENDS Integers, Sequences, FiniteSets, TLC

(***************************************************************************)
(* Bounds of the model: the values given on the command line for the      *)
(* integer options, and the largest value a batch loss takes.              *)
(***************************************************************************)
iterations == 2
batch_group_size == 2
batch_size == 2
test_data_size == 2
source_alphabet_size == 2
MaxLossValue == 1

(***************************************************************************)
(* random_sequence draws ordinary symbols from 3 upwards (train.py:13).    *)
(***************************************************************************)
FirstOrdinarySymbol == 3

(***************************************************************************)
(* stack_lstm: the reserved symbols, the symbol/index tables, the modes.   *)
(***************************************************************************)
START_SYMBOL == 0
SEPARATOR_SYMBOL == 1
END_SYMBOL == 2

INPUT_MODE == "INPUT_MODE"
OUTPUT_MODE == "OUTPUT_MODE"

input_symbol_to_index(s) == s
output_symbol_to_index(s) == s - END_SYMBOL
output_index_to_symbol(i) == i + END_SYMBOL

OutputIndices == 0 .. source_alphabet_size

(***************************************************************************)
(* stack_lstm: a State is the graph it lives on, its batch size and the    *)
(* steps taken so far; next returns a new State and leaves the old one.    *)
(***************************************************************************)
initial_state(graph, n) == [cg |-> graph, batch_size |-> n, steps |-> <<>>]

next(st, index_batch, mode) ==
    [st EXCEPT !.steps = Append(@, [mode |-> mode, index_batch |-> index_batch])]

(***************************************************************************)
(* util.transpose: rows to columns, as zip does (it stops at the end of    *)
(* the shortest row).                                                      *)
(***************************************************************************)
ShortestLen(rows) ==
    CHOOSE n \in { Len(rows[b]) : b \in 1..Len(rows) } :
       \A b \in 1..Len(rows) : n <= Len(rows[b])

transpose(rows) ==
    IF rows = <<>> THEN <<>>
    ELSE [k \in 1..ShortestLen(rows) |-> [b \in 1..Len(rows) |-> rows[b][k]]]

(***************************************************************************)
(* Exact rationals for the float accumulators.                             *)
(***************************************************************************)
RECURSIVE GCD(_, _)
GCD(a, b) == IF b = 0 THEN a ELSE GCD(b, a % b)

Rat(n, d) == LET g == GCD(n, d) IN IF g = 0 THEN <<0, 1>> ELSE <<n \div g, d \div g>>
RatAdd(x, y) == Rat(x[1] * y[2] + y[1] * x[2], x[2] * y[2])
RatDiv(x, k) == Rat(x[1], x[2] * k)
Zero == <<0, 1>>

(***************************************************************************)
(* Sequence (train.py:16-32).  The generators are modelled by the list of  *)
(* what they yield, in order.                                              *)
(***************************************************************************)
Sequence(source_sequence) == [source_sequence |-> source_sequence]

reversed(s) == [i \in 1..Len(s) |-> s[Len(s) + 1 - i]]

input_sequence_no_separator(self) == <<START_SYMBOL>> \o self.source_sequence

input_sequence(self) ==
    <<START_SYMBOL>> \o self.source_sequence \o <<SEPARATOR_SYMBOL>>

output_sequence_not_reversed(self) == self.source_sequence \o <<END_SYMBOL>>

output_sequence(self) == reversed(self.source_sequence) \o <<END_SYMBOL>>

output_sequence_length_no_end(self) == Len(self.source_sequence)

output_sequence_length(self) == Len(self.source_sequence) + 1

(***************************************************************************)
(* random_sequence (train.py:12-13): range(length) is empty for a length   *)
(* below 1; every symbol is 3 + randrange(alphabet_size).                  *)
(***************************************************************************)
random_sequence(length, alphabet_size) ==
    { Sequence(s) : s \in [1..length ->
        FirstOrdinarySymbol .. (FirstOrdinarySymbol + alphabet_size - 1)] }

(***************************************************************************)
(* random.randint(lo, hi): any integer of lo..hi; ValueError when empty.   *)
(***************************************************************************)
randint(range) == range[1] .. range[2]

(***************************************************************************)
(* parse_range (train.py:35-37) on an argument given as its characters.    *)
(* str.split keeps empty parts; the unpacking needs exactly two parts;     *)
(* int accepts an optional sign followed by digits.  Each failure is a     *)
(* ValueError, which argparse reports as a usage error (exit status 2).    *)
(***************************************************************************)
DigitChars == <<"0", "1", "2", "3", "4", "5", "6", "7", "8", "9">>
IsDigit(c) == \E i \in 1..Len(DigitChars) : DigitChars[i] = c
DigitValue(c) == (CHOOSE i \in 1..Len(DigitChars) : DigitChars[i] = c) - 1

RECURSIVE split(_, _)
split(arg, sep) ==
    IF arg = <<>> THEN << <<>> >>
    ELSE LET rest == split(Tail(arg), sep) IN
         IF Head(arg) = sep THEN << <<>> >> \o rest
         ELSE << <<Head(arg)>> \o rest[1] >> \o Tail(rest)

Unsigned(s) == IF s # <<>> /\ s[1] \in {"-", "+"} THEN Tail(s) ELSE s

int_raises(s) ==
    \/ Unsigned(s) = <<>>
    \/ \E i \in 1..Len(Unsigned(s)) : ~IsDigit(Unsigned(s)[i])

RECURSIVE DigitsValue(_)
DigitsValue(s) ==
    IF s = <<>> THEN 0
    ELSE 10 * DigitsValue(SubSeq(s, 1, Len(s) - 1)) + DigitValue(s[Len(s)])

int(s) == IF s # <<>> /\ s[1] = "-" THEN 0 - DigitsValue(Unsigned(s))
          ELSE DigitsValue(Unsigned(s))

parse_range_raises(arg) ==
    LET parts == split(arg, ",") IN
    \/ Len(parts) # 2
    \/ int_raises(parts[1])
    \/ int_raises(parts[2])

parse_range(arg) ==
    LET parts == split(arg, ",") IN <<int(parts[1]), int(parts[2])>>

(***************************************************************************)
(* The command lines the model runs: the two range options and --output.   *)
(***************************************************************************)
None == "None"

TrainingRangeArgs ==
    { <<"0", ",", "1">>,            \* 0,1
      <<"1", ",", "0">>,            \* min greater than max
      <<"x", ",", "1">>,            \* not a number
      <<"1">> }                     \* one part

TestRangeArgs ==
    { <<"0", ",", "2">>,            \* 0,2
      <<"2", ",", "0">>,            \* min greater than max
      <<"0", ",">>,                 \* an empty part
      <<"0", ",", "1", ",", "2">> } \* three parts

OutputArgs == { None, "params.bin" }

VARIABLES
    argv,                   \* the command line
    pc,                     \* where the run is
    exc,                    \* the exception that ended the run, and where it was raised
    args,                   \* the parsed arguments
    builder,                \* whether the StackLSTMBuilder exists
    params,                 \* the Parameter Collection: the updates applied to it
    saves,                  \* the calls of params.save
    cg,                     \* the computation graphs started (dynet.renew_cg)
    printed,                \* the last line written to the console
    group_no, batch_no,     \* train: the groups and the batches of the group done
    batch_group_loss,
    batch,
    input_sequence_batch, output_sequence_batch,
    state,                  \* the State of the running batch or trial
    pos,                    \* the symbols the running for loop has consumed
    symbol_losses,
    loss_value,
    group_loss_values,      \* the loss values added to batch_group_loss in the running group
    ops,                    \* the passes made for the running batch
    test_no,                \* test: the trials done
    sequence,
    fine_correct,
    total_fine_correct, total_coarse_correct,
    decoded                 \* the symbols decoded in the running trial

vars == <<argv, pc, exc, args, builder, params, saves, cg, printed,
          group_no, batch_no, batch_group_loss, batch,
          input_sequence_batch, output_sequence_batch, state, pos,
          symbol_losses, loss_value, group_loss_values, ops,
          test_no, sequence, fine_correct,
          total_fine_correct, total_coarse_correct, decoded>>

mainVars == <<argv, args, builder, saves>>
trainVars == <<group_no, batch_no, batch_group_loss, batch,
               input_sequence_batch, output_sequence_batch,
               symbol_losses, loss_value, group_loss_values, ops>>
testVars == <<test_no, sequence, fine_correct,
              total_fine_correct, total_coarse_correct, decoded>>

NoException == [type |-> None, raised_in |-> None]
NoState == initial_state(0, 0)
NoSequence == Sequence(<<>>)

TrainLocalsUnset ==
    /\ group_no = 0 /\ batch_no = 0 /\ batch_group_loss = 0
    /\ batch = <<>>
    /\ input_sequence_batch = <<>> /\ output_sequence_batch = <<>>
    /\ symbol_losses = <<>> /\ loss_value = 0 /\ group_loss_values = <<>> /\ ops = <<>>

TestLocalsUnset ==
    /\ test_no = 0 /\ sequence = NoSequence /\ fine_correct = 0
    /\ total_fine_correct = Zero /\ total_coarse_correct = 0
    /\ decoded = <<>>

Init ==
    /\ argv \in [training_length_range : TrainingRangeArgs,
                 test_length_range : TestRangeArgs,
                 output : OutputArgs]
    /\ pc = "parse_args"
    /\ exc = NoException
    /\ args = [training_length_range |-> <<0, 0>>,
               test_length_range |-> <<0, 0>>,
               output |-> None]
    /\ builder = FALSE
    /\ params = 0
    /\ saves = 0
    /\ cg = 0
    /\ printed = [line |-> None, value |-> <<>>]
    /\ state = NoState
    /\ pos = 0
    /\ TrainLocalsUnset
    /\ TestLocalsUnset

Raise(e, function) == pc' = "exit" /\ exc' = [type |-> e, raised_in |-> function]

Line(text, value) == [line |-> text, value |-> value]

(***************************************************************************)
(* main (train.py:120-163)                                                 *)
(***************************************************************************)
\* parser.parse_args(): type=parse_range is applied to both range options;
\* a ValueError in it ends the run with a usage error.
ParseArgs ==
    /\ pc = "parse_args"
    /\ IF \/ parse_range_raises(argv.training_length_range)
          \/ parse_range_raises(argv.test_length_range)
       THEN Raise("usage error", "main") /\ UNCHANGED args
       ELSE /\ args' = [training_length_range |-> parse_range(argv.training_length_range),
                        test_length_range |-> parse_range(argv.test_length_range),
                        output |-> argv.output]
            /\ pc' = "build"
            /\ UNCHANGED exc
    /\ UNCHANGED <<argv, builder, params, saves, cg, printed, state, pos>>
    /\ UNCHANGED trainVars
    /\ UNCHANGED testVars

\* params = dynet.ParameterCollection(); builder = StackLSTMBuilder(...)
BuildModel ==
    /\ pc = "build"
    /\ builder' = TRUE
    /\ pc' = "train"
    /\ UNCHANGED <<argv, exc, args, params, saves, cg, printed, state, pos>>
    /\ UNCHANGED trainVars
    /\ UNCHANGED testVars

(***************************************************************************)
(* train (train.py:40-81)                                                  *)
(***************************************************************************)
\* trainer = dynet.RMSPropTrainer(...); trainer.set_clip_threshold(...)
TrainBegin ==
    /\ pc = "train"
    /\ pc' = "group_loop"
    /\ UNCHANGED <<argv, exc, args, builder, params, saves, cg, printed, state, pos>>
    /\ UNCHANGED trainVars
    /\ UNCHANGED testVars

\* The accumulator set up once, before the group loop.
batch_group_loss_carried(previous) == previous

\* Line 45: batch_group_loss = 0.0, at the head of every group.
new_batch_group_loss(previous) == 0

\* for group_no in range(args.iterations): print; batch_group_loss = 0.0
TrainGroupBegin ==
    /\ pc = "group_loop"
    /\ group_no < iterations
    /\ printed' = Line("batch group", <<group_no + 1>>)
    /\ batch_group_loss' = new_batch_group_loss(batch_group_loss)
    /\ group_loss_values' = <<>>
    /\ batch_no' = 0
    /\ pc' = "batch_loop"
    /\ UNCHANGED <<argv, exc, args, builder, params, saves, cg, state, pos>>
    /\ UNCHANGED <<group_no, batch, input_sequence_batch, output_sequence_batch,
                   symbol_losses, loss_value, ops>>
    /\ UNCHANGED testVars

\* The State of the batch or trial before kept in place of a new one.
state_carried_over(previous, graph, n) == previous

\* Lines 58 and 95: state = builder.initial_state(...), on the new graph.
fresh_state(previous, graph, n) == initial_state(graph, n)

\* A length drawn for every sequence of the batch.
sample_batch_length_per_sequence(range) ==
    [1..batch_size ->
        UNION { random_sequence(length, source_alphabet_size) :
                   length \in randint(range) }]

\* Lines 48-51: one length for the batch, then batch_size sequences of it.
sample_batch(range) ==
    UNION { [1..batch_size -> random_sequence(length, source_alphabet_size)] :
               length \in randint(range) }

\* Lines 48-58: one length for the batch, batch_size sequences of it, the
\* two transposed batches, a new graph (the expressions of the old one are
\* stale from here on) and the initial state.
TrainSampleBatch ==
    /\ pc = "batch_loop"
    /\ batch_no < batch_group_size
    /\ \E b \in sample_batch(args.training_length_range) :
          /\ batch' = b
          /\ input_sequence_batch' =
                transpose([i \in 1..batch_size |-> input_sequence(b[i])])
          /\ output_sequence_batch' =
                transpose([i \in 1..batch_size |-> output_sequence(b[i])])
    /\ cg' = cg + 1
    /\ state' = fresh_state(state, cg', batch_size)
    /\ symbol_losses' = <<>>
    /\ ops' = <<>>
    /\ pos' = 0
    /\ pc' = "input_loop"
    /\ UNCHANGED <<argv, exc, args, builder, params, saves, printed>>
    /\ UNCHANGED <<group_no, batch_no, batch_group_loss, loss_value, group_loss_values>>
    /\ UNCHANGED testVars

\* random.randint raises ValueError on an empty range (line 48).
TrainSampleRaises ==
    /\ pc = "batch_loop"
    /\ batch_no < batch_group_size
    /\ randint(args.training_length_range) = {}
    /\ Raise("ValueError", "train")
    /\ UNCHANGED <<argv, args, builder, params, saves, cg, printed, state, pos>>
    /\ UNCHANGED trainVars
    /\ UNCHANGED testVars

\* Lines 61-63: one symbol batch of the input half.
TrainInputStep ==
    /\ pc = "input_loop"
    /\ pos < Len(input_sequence_batch)
    /\ LET symbol_batch == input_sequence_batch[pos + 1]
           index_batch == [i \in 1..Len(symbol_batch) |->
                              input_symbol_to_index(symbol_batch[i])]
       IN state' = next(state, index_batch, INPUT_MODE)
    /\ pos' = pos + 1
    /\ UNCHANGED <<argv, pc, exc, args, builder, params, saves, cg, printed>>
    /\ UNCHANGED trainVars
    /\ UNCHANGED testVars

\* Line 66: symbol_losses = []
TrainInputDone ==
    /\ pc = "input_loop"
    /\ pos = Len(input_sequence_batch)
    /\ symbol_losses' = <<>>
    /\ pos' = 0
    /\ pc' = "output_loop"
    /\ UNCHANGED <<argv, exc, args, builder, params, saves, cg, printed, state>>
    /\ UNCHANGED <<group_no, batch_no, batch_group_loss, batch,
                   input_sequence_batch, output_sequence_batch, loss_value, group_loss_values, ops>>
    /\ UNCHANGED testVars

\* dynet.pickneglogsoftmax_batch(state.output(), index_batch): the loss of
\* the output of this State against these targets.
pickneglogsoftmax_batch(st, index_batch) == [output_of |-> st, target |-> index_batch]

\* Lines 69-71 in the wrong order: the step first, the loss from its result.
loss_after_step(st, losses, index_batch) ==
    LET stepped == next(st, index_batch, OUTPUT_MODE) IN
    [symbol_losses |-> Append(losses, pickneglogsoftmax_batch(stepped, index_batch)),
     state |-> stepped]

\* Lines 69-71: the loss of the current output, then the step on the targets.
loss_then_step(st, losses, index_batch) ==
    [symbol_losses |-> Append(losses, pickneglogsoftmax_batch(st, index_batch)),
     state |-> next(st, index_batch, OUTPUT_MODE)]

\* Lines 67-71: one symbol batch of the output half.
TrainOutputStep ==
    /\ pc = "output_loop"
    /\ pos < Len(output_sequence_batch)
    /\ LET symbol_batch == output_sequence_batch[pos + 1]
           index_batch == [i \in 1..Len(symbol_batch) |->
                              output_symbol_to_index(symbol_batch[i])]
           r == loss_then_step(state, symbol_losses, index_batch)
       IN /\ symbol_losses' = r.symbol_losses
          /\ state' = r.state
    /\ pos' = pos + 1
    /\ UNCHANGED <<argv, pc, exc, args, builder, params, saves, cg, printed>>
    /\ UNCHANGED <<group_no, batch_no, batch_group_loss, batch,
                   input_sequence_batch, output_sequence_batch, loss_value, group_loss_values, ops>>
    /\ UNCHANGED testVars

\* Lines 72-75: the batch loss and its value (a negative log likelihood).
TrainForward ==
    /\ pc = "output_loop"
    /\ pos = Len(output_sequence_batch)
    /\ \E v \in 0..MaxLossValue :
          /\ loss_value' = v
          /\ group_loss_values' = Append(group_loss_values, v)
          /\ batch_group_loss' = batch_group_loss + v
    /\ ops' = Append(ops, "forward")
    /\ pc' = "backward"
    /\ UNCHANGED <<argv, exc, args, builder, params, saves, cg, printed, state, pos>>
    /\ UNCHANGED <<group_no, batch_no, batch,
                   input_sequence_batch, output_sequence_batch, symbol_losses>>
    /\ UNCHANGED testVars

\* Line 77: loss.backward()
TrainBackward ==
    /\ pc = "backward"
    /\ ops' = Append(ops, "backward")
    /\ pc' = "update"
    /\ UNCHANGED <<argv, exc, args, builder, params, saves, cg, printed, state, pos>>
    /\ UNCHANGED <<group_no, batch_no, batch_group_loss, batch,
                   input_sequence_batch, output_sequence_batch,
                   symbol_losses, loss_value, group_loss_values>>
    /\ UNCHANGED testVars

\* The update left out.
trainer_update_skipped(p) == p

\* trainer.update(): one more update of the parameters.
trainer_update(p) == p + 1

\* Line 79, and the end of the body of the batch loop.
TrainUpdate ==
    /\ pc = "update"
    /\ params' = trainer_update(params)
    /\ ops' = Append(ops, "update")
    /\ batch_no' = batch_no + 1
    /\ pc' = "batch_loop"
    /\ UNCHANGED <<argv, exc, args, builder, saves, cg, printed, state, pos>>
    /\ UNCHANGED <<group_no, batch_group_loss, batch,
                   input_sequence_batch, output_sequence_batch,
                   symbol_losses, loss_value, group_loss_values>>
    /\ UNCHANGED testVars

avg_loss == Rat(batch_group_loss, batch_size * batch_group_size)

\* Lines 80-81, and the end of the body of the group loop.
TrainGroupEnd ==
    /\ pc = "batch_loop"
    /\ batch_no = batch_group_size
    /\ printed' = Line("average loss", <<avg_loss>>)
    /\ group_no' = group_no + 1
    /\ pc' = "group_loop"
    /\ UNCHANGED <<argv, exc, args, builder, params, saves, cg, state, pos>>
    /\ UNCHANGED <<batch_no, batch_group_loss, batch,
                   input_sequence_batch, output_sequence_batch,
                   symbol_losses, loss_value, group_loss_values, ops>>
    /\ UNCHANGED testVars

\* train returns to main (line 159): its locals are gone.
TrainReturn ==
    /\ pc = "group_loop"
    /\ group_no = iterations
    /\ group_no' = 0 /\ batch_no' = 0 /\ batch_group_loss' = 0
    /\ batch' = <<>>
    /\ input_sequence_batch' = <<>> /\ output_sequence_batch' = <<>>
    /\ symbol_losses' = <<>> /\ loss_value' = 0 /\ group_loss_values' = <<>> /\ ops' = <<>>
    /\ state' = NoState
    /\ pos' = 0
    /\ pc' = "save"
    /\ UNCHANGED <<argv, exc, args, builder, params, saves, cg, printed>>
    /\ UNCHANGED testVars

(***************************************************************************)
(* main, after train: the optional save (train.py:160-162)                 *)
(***************************************************************************)
\* The save made whatever --output is.
save_always(output) == TRUE

\* Line 160: if args.output is not None
save_requested(output) == output # None

\* params.save(args.output) returns; print('parameters saved to ...')
SaveParams ==
    /\ pc = "save"
    /\ save_requested(args.output)
    /\ saves' = saves + 1
    /\ printed' = Line("parameters saved", <<>>)
    /\ pc' = "test"
    /\ UNCHANGED <<argv, exc, args, builder, params, cg, state, pos>>
    /\ UNCHANGED trainVars
    /\ UNCHANGED testVars

\* params.save(args.output) raises: nothing in main catches it.
SaveParamsRaises ==
    /\ pc = "save"
    /\ save_requested(args.output)
    /\ saves' = saves + 1
    /\ Raise("save error", "main")
    /\ UNCHANGED <<argv, args, builder, params, cg, printed, state, pos>>
    /\ UNCHANGED trainVars
    /\ UNCHANGED testVars

\* args.output is None: no save.
SkipSave ==
    /\ pc = "save"
    /\ ~save_requested(args.output)
    /\ pc' = "test"
    /\ UNCHANGED <<argv, exc, args, builder, params, saves, cg, printed, state, pos>>
    /\ UNCHANGED trainVars
    /\ UNCHANGED testVars

(***************************************************************************)
(* test (train.py:84-117)                                                  *)
(***************************************************************************)
\* Lines 85-87
TestBegin ==
    /\ pc = "test"
    /\ printed' = Line("testing", <<>>)
    /\ total_fine_correct' = Zero
    /\ total_coarse_correct' = 0
    /\ test_no' = 0
    /\ pc' = "trial_loop"
    /\ UNCHANGED <<argv, exc, args, builder, params, saves, cg, state, pos>>
    /\ UNCHANGED trainVars
    /\ UNCHANGED <<sequence, fine_correct, decoded>>

\* Lines 88-95: a new example, a new graph, the initial state of one row.
TestSampleTrial ==
    /\ pc = "trial_loop"
    /\ test_no < test_data_size
    /\ fine_correct' = 0
    /\ \E length \in randint(args.test_length_range) :
          sequence' \in random_sequence(length, source_alphabet_size)
    /\ cg' = cg + 1
    /\ state' = fresh_state(state, cg', 1)
    /\ decoded' = <<>>
    /\ pos' = 0
    /\ pc' = "trial_input"
    /\ UNCHANGED <<argv, exc, args, builder, params, saves, printed>>
    /\ UNCHANGED trainVars
    /\ UNCHANGED <<test_no, total_fine_correct, total_coarse_correct>>

\* random.randint raises ValueError on an empty range (line 91).
TestSampleRaises ==
    /\ pc = "trial_loop"
    /\ test_no < test_data_size
    /\ randint(args.test_length_range) = {}
    /\ fine_correct' = 0
    /\ Raise("ValueError", "test")
    /\ UNCHANGED <<argv, args, builder, params, saves, cg, printed, state, pos>>
    /\ UNCHANGED trainVars
    /\ UNCHANGED <<test_no, sequence, total_fine_correct, total_coarse_correct, decoded>>

\* Lines 98-100: one symbol of the input half.
TestInputStep ==
    /\ pc = "trial_input"
    /\ pos < Len(input_sequence(sequence))
    /\ LET symbol == input_sequence(sequence)[pos + 1]
           index == input_symbol_to_index(symbol)
       IN state' = next(state, <<index>>, INPUT_MODE)
    /\ pos' = pos + 1
    /\ UNCHANGED <<argv, pc, exc, args, builder, params, saves, cg, printed>>
    /\ UNCHANGED trainVars
    /\ UNCHANGED testVars

\* The input generator is exhausted; the output loop starts (line 103).
TestInputDone ==
    /\ pc = "trial_input"
    /\ pos = Len(input_sequence(sequence))
    /\ pos' = 0
    /\ pc' = "trial_output"
    /\ UNCHANGED <<argv, exc, args, builder, params, saves, cg, printed, state>>
    /\ UNCHANGED trainVars
    /\ UNCHANGED testVars

\* The comparison of line 106 replaced by True.
prediction_always_accepted(predicted_symbol, correct_symbol) == TRUE

\* Line 106: if predicted_symbol == correct_symbol
prediction_is_correct(predicted_symbol, correct_symbol) ==
    predicted_symbol = correct_symbol

\* The symbol fed where the index is meant.
fed_symbol(predicted_index, predicted_symbol, correct_symbol) == predicted_symbol

\* Line 108: what state.next is given is [predicted_index].
fed_index(predicted_index, predicted_symbol, correct_symbol) == predicted_index

\* Lines 103-110: decode, compare, then count and step, or break.
TestOutputStep ==
    /\ pc = "trial_output"
    /\ pos < Len(output_sequence(sequence))
    /\ \E predicted_index \in OutputIndices :
       LET correct_symbol == output_sequence(sequence)[pos + 1]
           predicted_symbol == output_index_to_symbol(predicted_index)
       IN /\ decoded' = Append(decoded, [output_of |-> state,
                                         predicted_index |-> predicted_index])
          /\ IF prediction_is_correct(predicted_symbol, correct_symbol)
             THEN /\ fine_correct' = fine_correct + 1
                  /\ state' = next(state,
                                   <<fed_index(predicted_index, predicted_symbol,
                                               correct_symbol)>>,
                                   OUTPUT_MODE)
                  /\ pos' = pos + 1
                  /\ UNCHANGED pc
             ELSE /\ pc' = "trial_end"
                  /\ UNCHANGED <<fine_correct, state, pos>>
    /\ UNCHANGED <<argv, exc, args, builder, params, saves, cg, printed>>
    /\ UNCHANGED trainVars
    /\ UNCHANGED <<test_no, sequence, total_fine_correct, total_coarse_correct>>

\* The output generator is exhausted: the for loop ends without a break.
TestOutputDone ==
    /\ pc = "trial_output"
    /\ pos = Len(output_sequence(sequence))
    /\ pc' = "trial_end"
    /\ UNCHANGED <<argv, exc, args, builder, params, saves, cg, printed, state, pos>>
    /\ UNCHANGED trainVars
    /\ UNCHANGED testVars

\* fine_correct / fine_total (line 112)
fine_score(correct, total) == Rat(correct, total)

\* The comparison of line 113 made against the source length.
coarse_score_without_end(correct, total) == IF correct >= total - 1 THEN 1 ELSE 0

\* fine_correct == fine_total, added as 0 or 1 (line 113)
coarse_score(correct, total) == IF correct = total THEN 1 ELSE 0

\* Lines 111-113, and the end of the body of the trial loop.
TestTrialEnd ==
    /\ pc = "trial_end"
    /\ LET fine_total == output_sequence_length(sequence) IN
       IF fine_total = 0
       THEN /\ Raise("ZeroDivisionError", "test")
            /\ UNCHANGED <<total_fine_correct, total_coarse_correct, test_no>>
       ELSE /\ total_fine_correct' =
                  RatAdd(total_fine_correct, fine_score(fine_correct, fine_total))
            /\ total_coarse_correct' =
                  total_coarse_correct + coarse_score(fine_correct, fine_total)
            /\ test_no' = test_no + 1
            /\ pc' = "trial_loop"
            /\ UNCHANGED exc
    /\ UNCHANGED <<argv, args, builder, params, saves, cg, printed, state, pos>>
    /\ UNCHANGED trainVars
    /\ UNCHANGED <<sequence, fine_correct, decoded>>

fine_accuracy == RatDiv(total_fine_correct, test_data_size)
coarse_accuracy == Rat(total_coarse_correct, test_data_size)

\* Lines 114-117; test returns and main ends.
TestReport ==
    /\ pc = "trial_loop"
    /\ test_no = test_data_size
    /\ printed' = Line("accuracy", <<fine_accuracy, coarse_accuracy>>)
    /\ pc' = "exit"
    /\ UNCHANGED <<argv, exc, args, builder, params, saves, cg, state, pos>>
    /\ UNCHANGED trainVars
    /\ UNCHANGED testVars

Next ==
    \/ ParseArgs
    \/ BuildModel
    \/ TrainBegin
    \/ TrainGroupBegin
    \/ TrainSampleBatch
    \/ TrainSampleRaises
    \/ TrainInputStep
    \/ TrainInputDone
    \/ TrainOutputStep
    \/ TrainForward
    \/ TrainBackward
    \/ TrainUpdate
    \/ TrainGroupEnd
    \/ TrainReturn
    \/ SaveParams
    \/ SaveParamsRaises
    \/ SkipSave
    \/ TestBegin
    \/ TestSampleTrial
    \/ TestSampleRaises
    \/ TestInputStep
    \/ TestInputDone
    \/ TestOutputStep
    \/ TestOutputDone
    \/ TestTrialEnd
    \/ TestReport

Spec == Init /\ [][Next]_vars

(***************************************************************************)
(* Where the run is.                                                       *)
(***************************************************************************)
TrainPcs == {"train", "group_loop", "batch_loop", "input_loop", "output_loop",
             "backward", "update"}
TrialPcs == {"trial_input", "trial_output", "trial_end"}
TestPcs == {"test", "trial_loop"} \cup TrialPcs

\* A batch has been sampled and train has not returned.
BatchSampled == pc \in TrainPcs /\ batch # <<>>
\* A trial has been sampled.
TrialSampled == pc \in TrialPcs \/ (pc = "trial_loop" /\ test_no > 0)

\* The sequences the run holds: the rows of the batch, the test example.
SampledSequences ==
    { batch[b] : b \in 1..Len(batch) } \cup
    (IF TrialSampled THEN {sequence} ELSE {})

SourceLength(S) == Len(S.source_sequence)

(***************************************************************************)
(* C1: for every source sequence of length L >= 0, output_sequence yields  *)
(* L + 1 symbols: the source symbols in reverse order, then END (END only  *)
(* when L = 0).  The same holds of every column of the transposed output   *)
(* batch of training and of every target the evaluation loop compares      *)
(* with.                                                                   *)
(***************************************************************************)
IsReversedThenEnd(out, src) ==
    /\ Len(out) = Len(src) + 1
    /\ \A i \in 1..Len(src) : out[i] = src[Len(src) + 1 - i]
    /\ out[Len(src) + 1] = END_SYMBOL

C1_OutputSequenceReversedThenEnd ==
    /\ \A S \in SampledSequences :
          IsReversedThenEnd(output_sequence(S), S.source_sequence)
    /\ BatchSampled =>
          \A b \in 1..Len(batch) :
             IsReversedThenEnd([k \in 1..Len(output_sequence_batch) |->
                                   output_sequence_batch[k][b]],
                               batch[b].source_sequence)
    /\ TrialSampled =>
          \A k \in 1..fine_correct :
             /\ k <= SourceLength(sequence) =>
                   output_index_to_symbol(decoded[k].predicted_index) =
                      sequence.source_sequence[SourceLength(sequence) + 1 - k]
             /\ k = SourceLength(sequence) + 1 =>
                   output_index_to_symbol(decoded[k].predicted_index) = END_SYMBOL

\* A trial on two different symbols whose whole output was matched.
C1_Witness ==
    /\ pc = "trial_end"
    /\ SourceLength(sequence) = 2
    /\ sequence.source_sequence[1] # sequence.source_sequence[2]
    /\ fine_correct = 3

(***************************************************************************)
(* C2: for every source sequence of length L >= 0, input_sequence yields   *)
(* L + 2 symbols: START, the source symbols in their order, SEPARATOR      *)
(* (START, SEPARATOR when L = 0).  The same holds of every column of the   *)
(* transposed input batch of training and of the input steps of a trial.   *)
(***************************************************************************)
IsStartSourceSeparator(inp, src) ==
    /\ Len(inp) = Len(src) + 2
    /\ inp[1] = START_SYMBOL
    /\ \A i \in 1..Len(src) : inp[i + 1] = src[i]
    /\ inp[Len(src) + 2] = SEPARATOR_SYMBOL

C2_InputSequenceStartSourceSeparator ==
    /\ \A S \in SampledSequences :
          IsStartSourceSeparator(input_sequence(S), S.source_sequence)
    /\ BatchSampled =>
          \A b \in 1..Len(batch) :
             IsStartSourceSeparator([k \in 1..Len(input_sequence_batch) |->
                                        input_sequence_batch[k][b]],
                                    batch[b].source_sequence)
    /\ pc \in {"trial_output", "trial_end"} =>
          IsStartSourceSeparator(
             [k \in 1..(SourceLength(sequence) + 2) |->
                 state.steps[k].index_batch[1]],
             sequence.source_sequence)

\* A trial on two different symbols whose input has been fed.
C2_Witness ==
    /\ pc = "trial_output"
    /\ SourceLength(sequence) = 2
    /\ sequence.source_sequence[1] # sequence.source_sequence[2]
    /\ Len(state.steps) = 4

(***************************************************************************)
(* C3: for every source sequence of length L >= 0, output_sequence_length  *)
(* is L + 1, which is the number of symbols output_sequence yields; the    *)
(* denominator of the fine score is therefore at least 1, no trial counts  *)
(* more correct positions than it, and no division by zero ends the run.   *)
(***************************************************************************)
C3_OutputSequenceLength ==
    /\ \A S \in SampledSequences :
          /\ output_sequence_length(S) = SourceLength(S) + 1
          /\ output_sequence_length(S) = Len(output_sequence(S))
          /\ output_sequence_length(S) > 0
    /\ TrialSampled => fine_correct <= output_sequence_length(sequence)
    /\ exc.type # "ZeroDivisionError"

\* A trial on the empty sequence that reached the division of line 112.
C3_Witness ==
    /\ pc = "trial_loop"
    /\ test_no > 0
    /\ SourceLength(sequence) = 0
    /\ fine_correct = 1

(***************************************************************************)
(* C4: in training, the k-th loss term of a batch is taken from the output *)
(* of the State reached before the k-th OUTPUT_MODE step, against the      *)
(* indices of the known k-th target symbols, and the k-th OUTPUT_MODE step *)
(* is given those same indices; nothing is decoded from the model during   *)
(* training; when the loss is evaluated there is one term per output       *)
(* position, L + 1 of them.                                                *)
(***************************************************************************)
BatchLength == SourceLength(batch[1])

\* The indices of the known k-th target symbols of the batch.
KnownTarget(k) ==
    [b \in 1..batch_size |->
        output_symbol_to_index(
            IF k = BatchLength + 1 THEN END_SYMBOL
            ELSE batch[b].source_sequence[BatchLength + 1 - k])]

C4_TeacherForcing ==
    /\ pc \in TrainPcs => decoded = <<>>
    /\ pc \in {"output_loop", "backward", "update"} =>
          /\ Len(symbol_losses) = pos
          /\ Len(state.steps) = BatchLength + 2 + pos
          /\ \A k \in 1..Len(symbol_losses) :
                /\ symbol_losses[k].target = KnownTarget(k)
                /\ symbol_losses[k].output_of.cg = state.cg
                /\ symbol_losses[k].output_of.steps =
                      SubSeq(state.steps, 1, BatchLength + 2 + k - 1)
                /\ state.steps[BatchLength + 2 + k] =
                      [mode |-> OUTPUT_MODE, index_batch |-> KnownTarget(k)]
    /\ pc \in {"backward", "update"} => Len(symbol_losses) = BatchLength + 1

\* The loss of a batch of two different one-symbol sequences was evaluated.
C4_Witness ==
    /\ pc = "backward"
    /\ BatchLength = 1
    /\ batch[1] # batch[2]
    /\ Len(symbol_losses) = 2

(***************************************************************************)
(* C5: every training batch makes one forward evaluation of its loss, then *)
(* one backward pass, then one optimizer update, in that order; the        *)
(* parameters change only in that update, by one update at a time, so      *)
(* never outside a training batch and never during evaluation; once        *)
(* training is over the updates number iterations * batch_group_size.      *)
(***************************************************************************)
TrainingOver ==
    \/ pc \in {"save"} \cup TestPcs
    \/ pc = "exit" /\ exc.raised_in # "train" /\ exc.type # "usage error"

C5_PassesState ==
    /\ pc \in {"input_loop", "output_loop"} => ops = <<>>
    /\ pc = "backward" => ops = <<"forward">>
    /\ pc = "update" => ops = <<"forward", "backward">>
    /\ pc = "batch_loop" /\ batch_no > 0 => ops = <<"forward", "backward", "update">>
    /\ pc \in {"batch_loop", "input_loop", "output_loop", "backward", "update"} =>
          params = group_no * batch_group_size + batch_no
    /\ pc = "group_loop" => params = group_no * batch_group_size
    /\ TrainingOver => params = iterations * batch_group_size

C5_OneForwardBackwardUpdatePerBatch ==
    /\ []C5_PassesState
    /\ [][params' # params =>
            /\ pc = "update"
            /\ ops = <<"forward", "backward">>
            /\ params' = params + 1
            /\ batch_no' = batch_no + 1]_vars
    /\ [][batch_no' = batch_no + 1 => params' = params + 1]_vars

\* A run that trained, evaluated and reported.
C5_Witness ==
    /\ pc = "exit"
    /\ exc = NoException
    /\ params = iterations * batch_group_size
    /\ test_no = test_data_size

(***************************************************************************)
(* What a trial decoded, against the true targets.                         *)
(***************************************************************************)
\* The true target symbol of output position k of the trial.
TrueTarget(k) ==
    IF k = SourceLength(sequence) + 1 THEN END_SYMBOL
    ELSE sequence.source_sequence[SourceLength(sequence) + 1 - k]

\* The k-th decoded symbol is the true target of position k.
Matched(k) == output_index_to_symbol(decoded[k].predicted_index) = TrueTarget(k)

\* The number of output positions before the first one decoded wrongly.
CorrectPrefix ==
    Cardinality({ k \in 1..Len(decoded) : \A j \in 1..k : Matched(j) })

\* The OUTPUT_MODE steps the State of the trial has taken.
OutputSteps ==
    Cardinality({ i \in 1..Len(state.steps) : state.steps[i].mode = OUTPUT_MODE })

(***************************************************************************)
(* C6: an evaluation trial stops at the first output position decoded      *)
(* wrongly: only the last decoded symbol of a trial can differ from its    *)
(* target, nothing is decoded and no step is taken after it, the State     *)
(* has taken one OUTPUT_MODE step per correct position, and the correct    *)
(* count is the length of the longest correctly predicted prefix.          *)
(***************************************************************************)
C6_StopsAtFirstMismatch ==
    TrialSampled =>
       /\ Len(decoded) <= SourceLength(sequence) + 1
       /\ \A k \in 1..(Len(decoded) - 1) : Matched(k)
       /\ fine_correct = CorrectPrefix
       /\ OutputSteps = fine_correct
       /\ pc = "trial_input" => decoded = <<>>
       /\ pc = "trial_output" => Len(decoded) = fine_correct
       /\ pc \in {"trial_end", "trial_loop"} =>
             \/ fine_correct = SourceLength(sequence) + 1 /\ Len(decoded) = fine_correct
             \/ /\ fine_correct < SourceLength(sequence) + 1
                /\ Len(decoded) = fine_correct + 1
                /\ ~Matched(Len(decoded))

\* A trial of three output positions that ended at a wrong second one.
C6_Witness ==
    /\ pc = "trial_end"
    /\ SourceLength(sequence) = 2
    /\ Len(decoded) = 2
    /\ fine_correct = 1

(***************************************************************************)
(* C7: a trial adds (correct prefix positions) / (L + 1) to the fine total *)
(* and adds to the coarse total 1 when all L + 1 positions, END included,  *)
(* were matched and 0 otherwise; the reported accuracies are the totals    *)
(* divided by test_data_size.                                              *)
(***************************************************************************)
AllMatched ==
    /\ Len(decoded) = SourceLength(sequence) + 1
    /\ \A k \in 1..Len(decoded) : Matched(k)

\* x = y + n / d, for rationals x and y given as pairs.
IsSumWith(x, y, n, d) == x[1] * (y[2] * d) = (y[1] * d + n * y[2]) * x[2]

C7_FineAndCoarseScores ==
    /\ [][pc = "trial_end" /\ pc' = "trial_loop" =>
            /\ IsSumWith(total_fine_correct', total_fine_correct,
                         CorrectPrefix, SourceLength(sequence) + 1)
            /\ total_coarse_correct' =
                  total_coarse_correct + (IF AllMatched THEN 1 ELSE 0)]_vars
    /\ [][total_fine_correct' # total_fine_correct
             \/ total_coarse_correct' # total_coarse_correct =>
            pc = "trial_end"]_vars
    /\ [](pc = "trial_loop" /\ test_no = 0 =>
            total_fine_correct = Zero /\ total_coarse_correct = 0)
    /\ [](printed.line = "accuracy" =>
            /\ test_no = test_data_size
            /\ printed.value[1][1] * (total_fine_correct[2] * test_data_size) =
                  total_fine_correct[1] * printed.value[1][2]
            /\ printed.value[2][1] * test_data_size =
                  total_coarse_correct * printed.value[2][2])

\* A report over one trial matched in full and one stopped half way.
C7_Witness ==
    /\ printed.line = "accuracy"
    /\ total_coarse_correct = 1
    /\ total_fine_correct = <<3, 2>>

(***************************************************************************)
(* C8: in evaluation every OUTPUT_MODE step is given the index decoded     *)
(* (argmax) from the output of the very State it advances.                 *)
(***************************************************************************)
C8_FeedsOwnPrediction ==
    TrialSampled /\ pc # "trial_input" =>
       /\ Len(state.steps) = SourceLength(sequence) + 2 + fine_correct
       /\ \A k \in 1..fine_correct :
             /\ decoded[k].predicted_index \in OutputIndices
             /\ decoded[k].output_of.cg = state.cg
             /\ decoded[k].output_of.steps =
                   SubSeq(state.steps, 1, SourceLength(sequence) + 2 + k - 1)
             /\ state.steps[SourceLength(sequence) + 2 + k] =
                   [mode |-> OUTPUT_MODE,
                    index_batch |-> <<decoded[k].predicted_index>>]

\* A trial that fed two of its own predictions.
C8_Witness ==
    /\ pc = "trial_output"
    /\ fine_correct = 2
    /\ OutputSteps = 2

(***************************************************************************)
(* C9: a run trains all its batches, then saves the parameters once if and *)
(* only if an output path is given, then evaluates; a save that fails ends *)
(* the run with its error, before any trial and any accuracy report.       *)
(***************************************************************************)
NoTrialStarted ==
    /\ TestLocalsUnset
    /\ cg = iterations * batch_group_size
    /\ printed.line \notin {"testing", "accuracy"}

C9_TrainSaveEvaluate ==
    /\ saves <= 1
    /\ pc \in TrainPcs \cup {"parse_args", "build", "save"} =>
          saves = 0 /\ TestLocalsUnset
    /\ saves = 1 =>
          /\ args.output # None
          /\ params = iterations * batch_group_size
    /\ pc \in TestPcs \/ (pc = "exit" /\ (exc = NoException \/ exc.raised_in = "test")) =>
          /\ params = iterations * batch_group_size
          /\ cg >= iterations * batch_group_size
          /\ saves = 1 <=> args.output # None
    /\ pc = "exit" /\ exc = NoException => printed.line = "accuracy"
    /\ exc.type = "save error" =>
          /\ pc = "exit"
          /\ saves = 1
          /\ NoTrialStarted

\* A run whose save failed.
C9_Witness ==
    /\ pc = "exit"
    /\ exc.type = "save error"
    /\ params = iterations * batch_group_size

(***************************************************************************)
(* C10: a range argument that is malformed (a part that is no number, a    *)
(* number of parts other than two, or a minimum above the maximum) ends    *)
(* the run at configuration time with a usage error: the model is not      *)
(* built, no batch or trial is sampled, no update and no save is made.     *)
(***************************************************************************)
Malformed(arg) ==
    LET parts == split(arg, ",") IN
    \/ Len(parts) # 2
    \/ int_raises(parts[1])
    \/ int_raises(parts[2])
    \/ int(parts[1]) > int(parts[2])

C10_MalformedRangeFailsAtConfiguration ==
    Malformed(argv.training_length_range) \/ Malformed(argv.test_length_range) =>
       /\ ~builder
       /\ cg = 0 /\ params = 0 /\ saves = 0 /\ test_no = 0
       /\ pc = "exit" => exc.type = "usage error"

(***************************************************************************)
(* C11: the average loss reported for a batch group is the sum of the loss *)
(* values of exactly the batch_group_size batches of that group, nothing   *)
(* carried over from an earlier group, divided by                          *)
(* batch_size * batch_group_size; it is not negative when no batch loss    *)
(* is.                                                                     *)
(***************************************************************************)
RECURSIVE SumSeq(_)
SumSeq(s) == IF s = <<>> THEN 0 ELSE s[1] + SumSeq(Tail(s))

C11_AverageLossOfTheGroup ==
    /\ pc \in {"batch_loop", "input_loop", "output_loop"} =>
          Len(group_loss_values) = batch_no
    /\ pc \in {"backward", "update"} =>
          /\ Len(group_loss_values) = batch_no + 1
          /\ group_loss_values[batch_no + 1] = loss_value
    /\ pc \in {"batch_loop", "input_loop", "output_loop", "backward", "update"} =>
          batch_group_loss = SumSeq(group_loss_values)
    /\ pc = "group_loop" /\ group_no > 0 =>
          /\ printed.line = "average loss"
          /\ Len(group_loss_values) = batch_group_size
          /\ printed.value[1][2] > 0
          /\ printed.value[1][1] * (batch_size * batch_group_size) =
                SumSeq(group_loss_values) * printed.value[1][2]
          /\ (\A i \in 1..Len(group_loss_values) : group_loss_values[i] >= 0) =>
                printed.value[1][1] >= 0

\* The report of the second group, after a first group of another total.
C11_Witness ==
    /\ pc = "group_loop"
    /\ group_no = 2
    /\ group_loss_values = <<0, 1>>
    /\ printed.value[1] = <<1, 4>>

(***************************************************************************)
(* The States whose output the caller has read: one per loss term of the   *)
(* running batch, one per decode of the running trial.                     *)
(***************************************************************************)
LastStep(st) == st.steps[Len(st.steps)]
LastMode(st) == IF st.steps = <<>> THEN None ELSE LastStep(st).mode

ReadStates ==
    { symbol_losses[k].output_of : k \in 1..Len(symbol_losses) } \cup
    { decoded[k].output_of : k \in 1..Len(decoded) }

\* The State st is the one reached by the step that consumed SEPARATOR.
AfterSeparator(st, length) ==
    /\ Len(st.steps) = length + 2
    /\ LastStep(st).mode = INPUT_MODE
    /\ \A b \in 1..Len(LastStep(st).index_batch) :
          LastStep(st).index_batch[b] = input_symbol_to_index(SEPARATOR_SYMBOL)

(***************************************************************************)
(* C13, as claimed: no loss term and no decode reads the output of a State *)
(* whose most recent step was an INPUT_MODE step, the SEPARATOR step       *)
(* included.                                                               *)
(***************************************************************************)
C13_NoOutputReadAfterInputStep ==
    \A st \in ReadStates : LastMode(st) # INPUT_MODE

(***************************************************************************)
(* C13, amended: the output of the initial State and of the States reached *)
(* by the INPUT_MODE steps before the last one is never read; the output   *)
(* of the State reached by the last INPUT_MODE step, the one that consumed *)
(* SEPARATOR, is read by the first loss term of a batch and by the first   *)
(* decode of a trial, and by no other; every later loss term or decode     *)
(* reads the output of a State whose most recent step was an OUTPUT_MODE   *)
(* step.                                                                   *)
(***************************************************************************)
C13_OnlySeparatorOutputRead ==
    /\ pc \in {"output_loop", "backward", "update"} =>
          \A k \in 1..Len(symbol_losses) :
             LET st == symbol_losses[k].output_of IN
             /\ Len(st.steps) >= BatchLength + 2
             /\ k = 1 => AfterSeparator(st, BatchLength)
             /\ k > 1 => LastMode(st) = OUTPUT_MODE
    /\ TrialSampled =>
          \A k \in 1..Len(decoded) :
             LET st == decoded[k].output_of IN
             /\ Len(st.steps) >= SourceLength(sequence) + 2
             /\ k = 1 => AfterSeparator(st, SourceLength(sequence))
             /\ k > 1 => LastMode(st) = OUTPUT_MODE

\* A batch with two loss terms and, later, a trial with two decodes.
C13_Witness ==
    \/ pc = "update" /\ Len(symbol_losses) = 2
    \/ pc = "trial_end" /\ Len(decoded) = 3

(***************************************************************************)
(* The steps a State has taken, by mode, and the entries of its stack (one *)
(* entry per step, whatever the mode).                                     *)
(***************************************************************************)
StepsOfMode(st, mode) ==
    Cardinality({ i \in 1..Len(st.steps) : st.steps[i].mode = mode })

InputStepsThenOutputSteps(st) ==
    \A i, j \in 1..Len(st.steps) :
       i < j /\ st.steps[i].mode = OUTPUT_MODE => st.steps[j].mode = OUTPUT_MODE

stack_entries(st) == Len(st.steps)

(***************************************************************************)
(* C14: a training batch of source length L advances its State by L + 2    *)
(* INPUT_MODE steps and then by L + 1 OUTPUT_MODE steps, no INPUT_MODE     *)
(* step after an OUTPUT_MODE step, so that the stack holds 2L + 3 entries  *)
(* at the end of the batch; an evaluation trial takes its L + 2 INPUT_MODE *)
(* steps first and then one OUTPUT_MODE step per correct prediction, at    *)
(* most L + 1.                                                             *)
(***************************************************************************)
C14_StepCounts ==
    /\ BatchSampled =>
          /\ InputStepsThenOutputSteps(state)
          /\ pc = "input_loop" =>
                /\ StepsOfMode(state, INPUT_MODE) = pos
                /\ StepsOfMode(state, OUTPUT_MODE) = 0
          /\ pc = "output_loop" =>
                /\ StepsOfMode(state, INPUT_MODE) = BatchLength + 2
                /\ StepsOfMode(state, OUTPUT_MODE) = pos
                /\ pos <= BatchLength + 1
          /\ pc \in {"backward", "update", "batch_loop", "group_loop"} =>
                /\ StepsOfMode(state, INPUT_MODE) = BatchLength + 2
                /\ StepsOfMode(state, OUTPUT_MODE) = BatchLength + 1
                /\ stack_entries(state) = 2 * BatchLength + 3
    /\ TrialSampled =>
          /\ InputStepsThenOutputSteps(state)
          /\ pc = "trial_input" =>
                /\ StepsOfMode(state, INPUT_MODE) = pos
                /\ StepsOfMode(state, OUTPUT_MODE) = 0
          /\ pc # "trial_input" =>
                /\ StepsOfMode(state, INPUT_MODE) = SourceLength(sequence) + 2
                /\ StepsOfMode(state, OUTPUT_MODE) = fine_correct
                /\ fine_correct <= SourceLength(sequence) + 1
                /\ stack_entries(state) = SourceLength(sequence) + 2 + fine_correct

\* The end of a batch of one-symbol sequences: five steps, five entries.
C14_Witness ==
    /\ pc = "batch_loop"
    /\ batch_no > 0
    /\ BatchLength = 1
    /\ stack_entries(state) = 5

(***************************************************************************)
(* C15: every training batch and every evaluation trial starts from the    *)
(* initial State (no step taken) on a new computation graph; the State     *)
(* that is stepped and every State whose output is read belong to the      *)
(* graph of the running batch or trial, never to an earlier one; a State   *)
(* only changes by one more step on its own graph or by being replaced by  *)
(* the initial State of a new graph.                                       *)
(***************************************************************************)
InBatch == pc \in {"input_loop", "output_loop", "backward", "update"}
InTrial == pc \in TrialPcs

C15_OnOwnGraph ==
    /\ InBatch =>
          /\ cg = group_no * batch_group_size + batch_no + 1
          /\ state.cg = cg /\ state.batch_size = batch_size
    /\ InTrial =>
          /\ cg = iterations * batch_group_size + test_no + 1
          /\ state.cg = cg /\ state.batch_size = 1
    /\ InBatch \/ InTrial => \A st \in ReadStates : st.cg = cg

C15_FreshStatePerBatchAndTrial ==
    /\ []C15_OnOwnGraph
    /\ [][cg' # cg =>
            /\ cg' = cg + 1
            /\ pc \in {"batch_loop", "trial_loop"}
            /\ pc' \in {"input_loop", "trial_input"}
            /\ state'.cg = cg' /\ state'.steps = <<>>
            /\ symbol_losses' = <<>> /\ decoded' = <<>>]_vars
    /\ [][pc' \in {"input_loop", "trial_input"} /\ pc' # pc => cg' = cg + 1]_vars
    /\ [][state' # state =>
            \/ cg' # cg
            \/ pc' = "save"
            \/ /\ state.cg = cg /\ state'.cg = cg
               /\ Len(state'.steps) = Len(state.steps) + 1
               /\ SubSeq(state'.steps, 1, Len(state.steps)) = state.steps]_vars

\* The second trial, after two groups of batches, has fed a prediction.
C15_Witness ==
    /\ pc = "trial_output"
    /\ test_no = 1
    /\ fine_correct = 1
    /\ state.cg = iterations * batch_group_size + 2

(***************************************************************************)
(* C16: the batch_size sequences of a training batch have one length, so   *)
(* the transposed batches have L + 2 and L + 1 rows of batch_size symbols, *)
(* every step is given batch_size indices, and every sequence is fed whole *)
(* (none cut short, none padded).                                          *)
(***************************************************************************)
C16_LockstepBatch ==
    BatchSampled =>
       /\ Len(batch) = batch_size
       /\ \A b \in 1..Len(batch) :
             /\ SourceLength(batch[b]) = BatchLength
             /\ Len(input_sequence(batch[b])) = Len(input_sequence_batch)
             /\ Len(output_sequence(batch[b])) = Len(output_sequence_batch)
       /\ Len(input_sequence_batch) = BatchLength + 2
       /\ Len(output_sequence_batch) = BatchLength + 1
       /\ \A k \in 1..Len(input_sequence_batch) :
             Len(input_sequence_batch[k]) = batch_size
       /\ \A k \in 1..Len(output_sequence_batch) :
             Len(output_sequence_batch[k]) = batch_size
       /\ \A i \in 1..Len(state.steps) :
             Len(state.steps[i].index_batch) = batch_size

\* A batch of different one-symbol sequences, all its steps taken.
C16_Witness ==
    /\ pc = "update"
    /\ BatchLength = 1
    /\ batch[1] # batch[batch_size]
    /\ Len(state.steps) = 5

(***************************************************************************)
(* C17: evaluation runs exactly test_data_size trials and then reports: a  *)
(* run that began evaluation ends with the report, made after              *)
(* test_data_size trials; a trial takes at most 2L + 3 steps and a         *)
(* mismatch ends the trial only; evaluation begins after exactly           *)
(* iterations * batch_group_size batches.                                  *)
(***************************************************************************)
EvaluationBegun ==
    \/ pc \in TestPcs \ {"test"}
    \/ pc = "exit" /\ (exc = NoException \/ exc.raised_in = "test")

C17_EvaluationRunsAllTrialsAndReports ==
    /\ pc = "test" => params = iterations * batch_group_size
                      /\ cg = iterations * batch_group_size
    /\ TrialSampled => Len(state.steps) <= 2 * SourceLength(sequence) + 3
    /\ EvaluationBegun => test_no <= test_data_size
    /\ EvaluationBegun /\ pc = "exit" =>
          /\ exc = NoException
          /\ printed.line = "accuracy"
          /\ test_no = test_data_size

(***************************************************************************)
(* The same for the runs whose test range is not empty, with the           *)
(* termination of every trial and of the trial loop, under the fairness of *)
(* a single thread that runs until it ends.                                *)
(***************************************************************************)
FairSpec == Init /\ [][Next]_vars /\ WF_vars(Next)

C17_WithNonEmptyTestRange ==
    /\ [](randint(args.test_length_range) # {} =>
            C17_EvaluationRunsAllTrialsAndReports)
    /\ [][pc = "trial_end" => pc' = "trial_loop" /\ test_no' = test_no + 1]_vars
    /\ (pc \in TrialPcs ~> pc = "trial_loop")
    /\ (pc = "test" /\ randint(args.test_length_range) # {} ~>
           pc = "exit" /\ printed.line = "accuracy" /\ test_no = test_data_size)

(***************************************************************************)
(* C18: with the output symbols and indices in bijection, every index an   *)
(* evaluation trial feeds to an OUTPUT_MODE step is the index of the true  *)
(* target of that position, so the indices fed are a prefix of those that  *)
(* teacher forcing feeds for the same sequence; a wrong prediction is      *)
(* never fed.                                                              *)
(***************************************************************************)
OutputSymbols == {END_SYMBOL} \cup
    (FirstOrdinarySymbol .. (FirstOrdinarySymbol + source_alphabet_size - 1))

OutputTablesBijective ==
    /\ \A s \in OutputSymbols :
          /\ output_symbol_to_index(s) \in OutputIndices
          /\ output_index_to_symbol(output_symbol_to_index(s)) = s
    /\ \A i \in OutputIndices :
          /\ output_index_to_symbol(i) \in OutputSymbols
          /\ output_symbol_to_index(output_index_to_symbol(i)) = i

\* What teacher forcing feeds at output position k for the sequence S.
TeacherForced(S, k) == <<output_symbol_to_index(output_sequence(S)[k])>>

C18_FedIndicesAreTrueTargets ==
    OutputTablesBijective /\ TrialSampled /\ pc # "trial_input" =>
       /\ StepsOfMode(state, OUTPUT_MODE) <= Len(output_sequence(sequence))
       /\ \A k \in 1..StepsOfMode(state, OUTPUT_MODE) :
             /\ state.steps[SourceLength(sequence) + 2 + k].mode = OUTPUT_MODE
             /\ state.steps[SourceLength(sequence) + 2 + k].index_batch =
                   TeacherForced(sequence, k)
       /\ \A k \in 1..Len(decoded) :
             ~Matched(k) => Len(state.steps) < SourceLength(sequence) + 2 + k

\* A trial that fed two predictions and stopped at a wrong third one.
C18_Witness ==
    /\ pc = "trial_end"
    /\ Len(decoded) = 3
    /\ fine_correct = 2
    /\ ~Matched(3)

(***************************************************************************)
(* C19: after n trials 0 <= total_coarse_correct <= total_fine_correct     *)
(* <= n; a trial adds 1 to the coarse total exactly when it adds 1, the    *)
(* most it can add, to the fine total; the reported coarse accuracy is at  *)
(* most the reported fine accuracy and both lie between 0 and 1.           *)
(***************************************************************************)
RatLeq(x, y) == x[1] * y[2] <= y[1] * x[2]
Whole(n) == <<n, 1>>

C19_TotalsOrdered ==
    /\ total_fine_correct[2] > 0
    /\ 0 <= total_coarse_correct
    /\ RatLeq(Whole(total_coarse_correct), total_fine_correct)
    /\ RatLeq(total_fine_correct, Whole(test_no))
    /\ printed.line = "accuracy" =>
          /\ printed.value[1][2] > 0 /\ printed.value[2][2] > 0
          /\ RatLeq(Whole(0), printed.value[2])
          /\ RatLeq(printed.value[2], printed.value[1])
          /\ RatLeq(printed.value[1], Whole(1))

C19_CoarseAtMostFine ==
    /\ []C19_TotalsOrdered
    /\ [][pc = "trial_end" /\ pc' = "trial_loop" =>
            /\ total_coarse_correct' \in
                  {total_coarse_correct, total_coarse_correct + 1}
            /\ RatLeq(total_fine_correct, total_fine_correct')
            /\ RatLeq(total_fine_correct', RatAdd(total_fine_correct, Whole(1)))
            /\ total_coarse_correct' = total_coarse_correct + 1 <=>
                  total_fine_correct' = RatAdd(total_fine_correct, Whole(1))]_vars

\* A report of a fine accuracy above the coarse one, neither 0 nor 1.
C19_Witness ==
    /\ printed.line = "accuracy"
    /\ printed.value[2] = <<1, 2>>
    /\ printed.value[1] = <<5, 6>>

====
